---- MODULE Spec2Model ----
(***************************************************************************)
(* Order saga of saga_demo: SagaOrchestrator.execute over the in-memory    *)
(* Store, with the Discounts, Inventory and Billing services.              *)
(*                                                                         *)
(* Money (Decimal) is an integer number of thousandths (1.00 = 1000), so   *)
(* that quantize(Decimal("0.01")) has something to round.                  *)
(* A log line is a record: the order id, the fixed text of the line, and   *)
(* the strings and numbers formatted into it.                              *)
(* logs holds the lines appended to Store.logs since the current (or the   *)
(* latest) call of execute began: Store.log only appends, and no code      *)
(* reads the list, so the lines of earlier calls are dropped at the next   *)
(* SAGA START.                                                             *)
(* Every record constructor lists its fields in the order in which the     *)
(* field names first appear in this module, which is the order TLC keeps   *)
(* them in.                                                                *)
(***************************************************************************)
EXTENDS FiniteSets, Integers, Sequences, TLC

\* ------------------------------------------------------------------ bounds
MaxOrders == 1
MaxQty == 2
\* calls of execute in a row on one store (SpecSeq)
MaxSeqOrders == 3
\* direct calls of the services in a row on one store (SpecServices)
MaxCalls == 2

\* --------------------------------------------------------------- constants
\* Decimal("0.01") in thousandths
Cent == 10

\* Python's None (no promo code, no fail-at directive)
None == "None"

\* req and amounts while no call has been made
NoRequest == [user_id |-> 0, sku |-> "", qty |-> 0, promo_code |-> None]
NoAmounts == [base_amount |-> 0, discount_amount |-> 0, final_amount |-> 0]

\* service_call and service_result while no service has been called directly
NoCall == <<"", "", 0, 0>>
NoResult == <<"none", 0>>

\* reference while no reference call has been kept
NoReference == <<NoRequest, "none", <<>>, <<>>>>

\* -------------------------------------------------------------- step names
ReservePromoUseName == "ReservePromoUse"
ReserveInventoryName == "ReserveInventory"
ChargeUserBalanceName == "ChargeUserBalance"
FinalizeOrderName == "FinalizeOrder"

StepNames ==
  {ReservePromoUseName, ReserveInventoryName, ChargeUserBalanceName, FinalizeOrderName}

\* ------------------------------------------------------------------ inputs
\* user ids a caller may pass; 3 is in no seeded store
UserIds == {1, 2, 3}
\* skus a caller may pass; "NOSKU" is in no seeded store
Skus == {"ITEM001", "ITEM00X", "NOSKU"}
\* promo codes a caller may pass: none, the empty string, a code with one
\* use, a depleted code, a code in no seeded store
PromoCodes == {None, "", "ONETIME", "EXPIRED", "NOPROMO"}
\* fail-at directives: none, each step name, a name of no step
FailAts == {None} \cup StepNames \cup {"NoSuchStep"}
Qtys == -1..MaxQty

\* discount_amount the promo ONETIME may be seeded with
SeedDiscounts == {20000, 20015, -5000}

SeedUsers == [k \in {1, 2} |-> IF k = 1 THEN 1000000 ELSE 50000]

SeedItems ==
  [k \in {"ITEM001", "ITEM00X"} |->
     IF k = "ITEM001" THEN [price |-> 100000, on_hand |-> 10]
                        ELSE [price |-> 125, on_hand |-> 1]]

SeedPromos(d) ==
  [k \in {"ONETIME", "EXPIRED"} |->
     IF k = "ONETIME" THEN [discount_amount |-> d, remaining_uses |-> 1]
                      ELSE [discount_amount |-> 15000, remaining_uses |-> 0]]

\* ------------------------------------------------------------------- state
VARIABLES
  users,        \* Store.users: id -> balance
  items,        \* Store.items: sku -> [price, on_hand]
  promos,       \* Store.promos: code -> [remaining_uses, discount_amount]
  logs,         \* Store.logs (lines of the current call)
  pc,           \* where execute is: "idle", "executing", "compensating"
  order_id,     \* order id of the current call (calls are numbered 1, 2, ..)
  req,          \* the OrderRequest of the current call
  fail_at_step, \* the fail_at_step argument of the current call
  amounts,      \* OrderAmounts computed by the current call
  steps,        \* the names of the built steps, in order
  idx,          \* index in steps of the next step of the for loop
  completed,    \* the names of the completed steps, in completion order
  comp_idx,     \* index in reversed(completed) of the next step to compensate
  result,       \* "none" while running; "True" / "False" returned; "raised"
  before,       \* users, items, promos as they were when the call began
  successes,    \* <<req, amounts>> of every call that returned True, in order
  service_call, \* the latest direct call of a service: <<name, str, num, num>>
  service_result, \* its outcome: <<"returned" / "raised", value returned>>
  reference     \* <<req, result, ledger, logs>> of the call kept for comparison

vars ==
  <<users, items, promos, logs, pc, order_id, req, fail_at_step, amounts,
    steps, idx, completed, comp_idx, result, before, successes,
    service_call, service_result, reference>>

ledger == <<users, items, promos>>

\* --------------------------------------------------------------- log lines
Line(oid, t, ss, ns) ==
  [order |-> oid, text |-> t, strs |-> ss, nums |-> ns]

\* Store.log
Log(lines, line) == Append(lines, line)

\* ------------------------------------------------------------------ Decimal
\* quantize that rounds a tie up (ROUND_HALF_UP)
Quantize_HalfUp(x) ==
  LET q == x \div Cent
      r == x % Cent
  IN  IF 2 * r < Cent THEN q * Cent ELSE (q + 1) * Cent

\* Decimal.quantize(Decimal("0.01")) under the default ROUND_HALF_EVEN
Quantize(x) ==
  LET q == x \div Cent
      r == x % Cent
  IN  IF 2 * r < Cent THEN q * Cent
      ELSE IF 2 * r > Cent THEN (q + 1) * Cent
      ELSE IF q % 2 = 0 THEN q * Cent ELSE (q + 1) * Cent

Min(a, b) == IF a <= b THEN a ELSE b

\* truth value of an Optional[str]: None and "" are both false
Truthy(s) == s # None /\ s # ""

Init ==
  /\ users = SeedUsers
  /\ items = SeedItems
  /\ \E d \in SeedDiscounts : promos = SeedPromos(d)
  /\ logs = <<>>
  /\ pc = "idle"
  /\ order_id = 0
  /\ req = NoRequest
  /\ fail_at_step = None
  /\ amounts = NoAmounts
  /\ steps = <<>>
  /\ idx = 0
  /\ completed = <<>>
  /\ comp_idx = 0
  /\ result = "none"
  /\ before = <<SeedUsers, SeedItems, promos>>
  /\ successes = <<>>
  /\ service_call = NoCall
  /\ service_result = NoResult
  /\ reference = NoReference

\* ---------------------------------------------------------------- services
\* The store a service works on: the three tables and the log.
StoreOf(us, its, ps, lg) == [users |-> us, items |-> its, promos |-> ps, logs |-> lg]

\* A call that returned, leaving the store st
Returned(st) == [ok |-> TRUE, store |-> st, error |-> [strs |-> <<>>, nums |-> <<>>]]
\* A call that raised ValueError / SagaError with the message (text, strs, nums),
\* leaving the store st
Raised(st, text, strs, nums) ==
  [ok |-> FALSE, store |-> st, error |-> [strs |-> <<text>> \o strs, nums |-> nums]]

\* calculate_discount without the cap at the base amount
calculate_discount_NoCap(ps, promo_code, base_amount) ==
  IF ~Truthy(promo_code) THEN 0
  ELSE IF promo_code \notin DOMAIN ps THEN 0
  ELSE IF ps[promo_code].remaining_uses <= 0 THEN 0
  ELSE ps[promo_code].discount_amount

\* DiscountsService.calculate_discount
calculate_discount(ps, promo_code, base_amount) ==
  IF ~Truthy(promo_code) THEN 0
  ELSE IF promo_code \notin DOMAIN ps THEN 0
  ELSE IF ps[promo_code].remaining_uses <= 0 THEN 0
  ELSE Min(ps[promo_code].discount_amount, base_amount)

\* reserve_promo_use without the check of remaining_uses
reserve_promo_use_NoUsesCheck(st, oid, promo_code) ==
  IF promo_code \notin DOMAIN st.promos
    THEN Raised(st, "Promo not found", <<promo_code>>, <<>>)
  ELSE LET left == st.promos[promo_code].remaining_uses - 1
       IN  Returned([st EXCEPT
             !.promos[promo_code].remaining_uses = left,
             !.logs = Log(@, Line(oid, "promo reserved", <<promo_code>>, <<left>>))])

\* DiscountsService.reserve_promo_use
reserve_promo_use(st, oid, promo_code) ==
  IF promo_code \notin DOMAIN st.promos
    THEN Raised(st, "Promo not found", <<promo_code>>, <<>>)
  ELSE IF st.promos[promo_code].remaining_uses <= 0
    THEN Raised(st, "Promo has no remaining uses", <<promo_code>>, <<>>)
  ELSE LET left == st.promos[promo_code].remaining_uses - 1
       IN  Returned([st EXCEPT
             !.promos[promo_code].remaining_uses = left,
             !.logs = Log(@, Line(oid, "promo reserved", <<promo_code>>, <<left>>))])

\* release_promo_use that logs the release and gives no use back
release_promo_use_NoRestore(st, oid, promo_code) ==
  IF promo_code \notin DOMAIN st.promos THEN Returned(st)
  ELSE LET left == st.promos[promo_code].remaining_uses
       IN  Returned([st EXCEPT
             !.logs = Log(@, Line(oid, "promo released", <<promo_code>>, <<left>>))])

\* DiscountsService.release_promo_use
release_promo_use(st, oid, promo_code) ==
  IF promo_code \notin DOMAIN st.promos THEN Returned(st)
  ELSE LET left == st.promos[promo_code].remaining_uses + 1
       IN  Returned([st EXCEPT
             !.promos[promo_code].remaining_uses = left,
             !.logs = Log(@, Line(oid, "promo released", <<promo_code>>, <<left>>))])

\* reserve_inventory without the check of on_hand
reserve_inventory_NoStockCheck(st, oid, sku, qty) ==
  IF sku \notin DOMAIN st.items
    THEN Raised(st, "Item not found", <<sku>>, <<>>)
  ELSE LET left == st.items[sku].on_hand - qty
       IN  Returned([st EXCEPT
             !.items[sku].on_hand = left,
             !.logs = Log(@, Line(oid, "inventory reserved", <<sku>>, <<qty, left>>))])

\* InventoryService.reserve_inventory
reserve_inventory(st, oid, sku, qty) ==
  IF sku \notin DOMAIN st.items
    THEN Raised(st, "Item not found", <<sku>>, <<>>)
  ELSE IF st.items[sku].on_hand < qty
    THEN Raised(st, "Insufficient inventory", <<sku>>, <<st.items[sku].on_hand, qty>>)
  ELSE LET left == st.items[sku].on_hand - qty
       IN  Returned([st EXCEPT
             !.items[sku].on_hand = left,
             !.logs = Log(@, Line(oid, "inventory reserved", <<sku>>, <<qty, left>>))])

\* release_inventory that raises for a sku the store does not have
release_inventory_RaisesUnknown(st, oid, sku, qty) ==
  IF sku \notin DOMAIN st.items
    THEN Raised(st, "Item not found", <<sku>>, <<>>)
  ELSE LET left == st.items[sku].on_hand + qty
       IN  Returned([st EXCEPT
             !.items[sku].on_hand = left,
             !.logs = Log(@, Line(oid, "inventory released", <<sku>>, <<qty, left>>))])

\* InventoryService.release_inventory
release_inventory(st, oid, sku, qty) ==
  IF sku \notin DOMAIN st.items THEN Returned(st)
  ELSE LET left == st.items[sku].on_hand + qty
       IN  Returned([st EXCEPT
             !.items[sku].on_hand = left,
             !.logs = Log(@, Line(oid, "inventory released", <<sku>>, <<qty, left>>))])

\* charge_user_balance that refuses only a user whose balance is not positive
charge_user_balance_ChecksPositive(st, oid, user_id, amount) ==
  IF user_id \notin DOMAIN st.users
    THEN Raised(st, "User not found", <<>>, <<user_id>>)
  ELSE IF st.users[user_id] <= 0
    THEN Raised(st, "Insufficient balance", <<>>, <<user_id, st.users[user_id], amount>>)
  ELSE LET left == st.users[user_id] - amount
       IN  Returned([st EXCEPT
             !.users[user_id] = left,
             !.logs = Log(@, Line(oid, "charged", <<>>, <<user_id, amount, left>>))])

\* charge_user_balance without the check of the balance
charge_user_balance_NoBalanceCheck(st, oid, user_id, amount) ==
  IF user_id \notin DOMAIN st.users
    THEN Raised(st, "User not found", <<>>, <<user_id>>)
  ELSE LET left == st.users[user_id] - amount
       IN  Returned([st EXCEPT
             !.users[user_id] = left,
             !.logs = Log(@, Line(oid, "charged", <<>>, <<user_id, amount, left>>))])

\* BillingService.charge_user_balance
charge_user_balance(st, oid, user_id, amount) ==
  IF user_id \notin DOMAIN st.users
    THEN Raised(st, "User not found", <<>>, <<user_id>>)
  ELSE IF st.users[user_id] < amount
    THEN Raised(st, "Insufficient balance", <<>>, <<user_id, st.users[user_id], amount>>)
  ELSE LET left == st.users[user_id] - amount
       IN  Returned([st EXCEPT
             !.users[user_id] = left,
             !.logs = Log(@, Line(oid, "charged", <<>>, <<user_id, amount, left>>))])

\* BillingService.refund_user_balance
refund_user_balance(st, oid, user_id, amount) ==
  IF user_id \notin DOMAIN st.users THEN Returned(st)
  ELSE LET left == st.users[user_id] + amount
       IN  Returned([st EXCEPT
             !.users[user_id] = left,
             !.logs = Log(@, Line(oid, "refunded", <<>>, <<user_id, amount, left>>))])

\* ------------------------------------------------------------------- steps
\* <Step>.execute whose ChargeUserBalance charges the base amount
StepExecute_ChargesBase(name, st, oid, r, a) ==
  IF name = ReservePromoUseName THEN reserve_promo_use(st, oid, r.promo_code)
  ELSE IF name = ReserveInventoryName THEN reserve_inventory(st, oid, r.sku, r.qty)
  ELSE IF name = ChargeUserBalanceName
    THEN charge_user_balance(st, oid, r.user_id, a.base_amount)
  ELSE Returned([st EXCEPT !.logs = Log(@, Line(oid, "order finalized", <<>>, <<>>))])

\* <Step>.execute of the step called name, built for request r, amounts a
StepExecute(name, st, oid, r, a) ==
  IF name = ReservePromoUseName THEN reserve_promo_use(st, oid, r.promo_code)
  ELSE IF name = ReserveInventoryName THEN reserve_inventory(st, oid, r.sku, r.qty)
  ELSE IF name = ChargeUserBalanceName
    THEN charge_user_balance(st, oid, r.user_id, a.final_amount)
  ELSE Returned([st EXCEPT !.logs = Log(@, Line(oid, "order finalized", <<>>, <<>>))])

\* <Step>.compensate whose ChargeUserBalance refunds the base amount
StepCompensate_RefundsBase(name, st, oid, r, a) ==
  IF name = ReservePromoUseName THEN release_promo_use(st, oid, r.promo_code)
  ELSE IF name = ReserveInventoryName THEN release_inventory(st, oid, r.sku, r.qty)
  ELSE IF name = ChargeUserBalanceName
    THEN refund_user_balance(st, oid, r.user_id, a.base_amount)
  ELSE Returned([st EXCEPT
         !.logs = Log(@, Line(oid, "finalize has no compensation", <<>>, <<>>))])

\* <Step>.compensate
StepCompensate(name, st, oid, r, a) ==
  IF name = ReservePromoUseName THEN release_promo_use(st, oid, r.promo_code)
  ELSE IF name = ReserveInventoryName THEN release_inventory(st, oid, r.sku, r.qty)
  ELSE IF name = ChargeUserBalanceName
    THEN refund_user_balance(st, oid, r.user_id, a.final_amount)
  ELSE Returned([st EXCEPT
         !.logs = Log(@, Line(oid, "finalize has no compensation", <<>>, <<>>))])

\* Step.run that logs STEP OK before it calls execute
StepRun_OKBeforeExecute(name, st, oid, r, a) ==
  LET opened == [st EXCEPT !.logs = Log(Log(@, Line(oid, "STEP", <<name>>, <<>>)),
                                        Line(oid, "STEP OK", <<name>>, <<>>))]
  IN  StepExecute(name, opened, oid, r, a)

\* Step.run: the STEP line, execute, and the STEP OK line if execute returned
StepRun(name, st, oid, r, a) ==
  LET opened == [st EXCEPT !.logs = Log(@, Line(oid, "STEP", <<name>>, <<>>))]
      out == StepExecute(name, opened, oid, r, a)
  IN  IF out.ok
        THEN Returned([out.store EXCEPT !.logs = Log(@, Line(oid, "STEP OK", <<name>>, <<>>))])
        ELSE out

\* Step.run_compensation, for a compensate that returns
StepRunCompensation(name, st, oid, r, a) ==
  LET opened == [st EXCEPT !.logs = Log(@, Line(oid, "COMPENSATE", <<name>>, <<>>))]
      out == StepCompensate(name, opened, oid, r, a)
  IN  IF out.ok
        THEN Returned([out.store EXCEPT
               !.logs = Log(@, Line(oid, "COMPENSATE OK", <<name>>, <<>>))])
        ELSE out

\* ------------------------------------------------------------ orchestrator
\* SagaOrchestrator._calculate_amounts, for a sku the store has
calculate_amounts(its, ps, r) ==
  LET base == Quantize(its[r.sku].price * r.qty)
      discount == Quantize(calculate_discount(ps, r.promo_code, base))
      final == Quantize(base - discount)
  IN  [base_amount |-> base, discount_amount |-> discount, final_amount |-> final]

\* reversed(seq) that walks the list forwards
Reversed_Forward(seq) == seq

\* reversed(seq) that misses the earliest element
Reversed_SkipFirst(seq) == [i \in 1..(Len(seq) - 1) |-> seq[Len(seq) + 1 - i]]

\* reversed(seq)
Reversed(seq) == [i \in 1..Len(seq) |-> seq[Len(seq) + 1 - i]]

\* the steps list with ReservePromoUse only for a promo code of the store
BuildSteps_KnownPromoOnly(r) ==
  (IF r.promo_code \in {"ONETIME", "EXPIRED"} THEN <<ReservePromoUseName>> ELSE <<>>)
    \o <<ReserveInventoryName, ChargeUserBalanceName, FinalizeOrderName>>

\* the steps list execute builds
BuildSteps(r) ==
  (IF Truthy(r.promo_code) THEN <<ReservePromoUseName>> ELSE <<>>)
    \o <<ReserveInventoryName, ChargeUserBalanceName, FinalizeOrderName>>

\* the store as it is now
Store == StoreOf(users, items, promos, logs)

\* the validation with qty >= 0 for qty > 0
Valid_QtyNonNegative(r) ==
  r.qty >= 0 /\ r.user_id \in DOMAIN users /\ r.sku \in DOMAIN items

\* the request passes the checks made before any step is built
Valid(r) == r.qty > 0 /\ r.user_id \in DOMAIN users /\ r.sku \in DOMAIN items

Request(u, s, q, p) == [user_id |-> u, sku |-> s, qty |-> q, promo_code |-> p]

SagaStartLine(oid, r) ==
  Line(oid, "SAGA START", <<r.sku, r.promo_code>>, <<r.user_id, r.qty>>)

\* execute, up to the raise of a request that fails validation; the raise
\* comes before fail_at_step is read, so no directive is drawn
\* (limit is the number of calls the run is cut at)
Rejected(r, limit) ==
  /\ pc = "idle"
  /\ order_id < limit
  /\ ~Valid(r)
  /\ order_id' = order_id + 1
  /\ req' = r
  /\ fail_at_step' = None
  /\ logs' = Log(<<>>, SagaStartLine(order_id + 1, r))
  /\ result' = "raised"
  /\ before' = ledger
  /\ amounts' = NoAmounts
  /\ steps' = <<>>
  /\ idx' = 0
  /\ completed' = <<>>
  /\ comp_idx' = 0
  /\ UNCHANGED <<successes, service_call, service_result, reference>>
  /\ UNCHANGED <<users, items, promos, pc>>

ExecuteRejected ==
  \E u \in UserIds, s \in Skus, q \in Qtys, p \in PromoCodes :
    Rejected(Request(u, s, q, p), MaxOrders)

\* execute, from its entry to the first iteration of the for loop, for a
\* request that passes validation (limit as in Rejected)
Begin(r, f, limit) ==
  LET oid == order_id + 1
      a == calculate_amounts(items, promos, r)
  IN  /\ pc = "idle"
      /\ order_id < limit
      /\ Valid(r)
      /\ order_id' = oid
      /\ req' = r
      /\ fail_at_step' = f
      /\ amounts' = a
      /\ logs' = Log(Log(<<>>, SagaStartLine(oid, r)),
                     Line(oid, "amounts", <<>>,
                          <<a.base_amount, a.discount_amount, a.final_amount>>))
      /\ steps' = BuildSteps(r)
      /\ idx' = 1
      /\ completed' = <<>>
      /\ comp_idx' = 0
      /\ result' = "none"
      /\ before' = ledger
      /\ pc' = "executing"
      /\ UNCHANGED <<successes, service_call, service_result, reference>>
      /\ UNCHANGED <<users, items, promos>>

ExecuteStart ==
  \E u \in UserIds, s \in Skus, q \in Qtys, p \in PromoCodes, f \in FailAts :
    Begin(Request(u, s, q, p), f, MaxOrders)

\* the except clause is entered with the message (strs, nums): SAGA FAILED is
\* logged and the compensation loop starts
EnterFailed(lg, strs, nums) ==
  /\ logs' = Log(lg, Line(order_id, "SAGA FAILED", strs, nums))
  /\ comp_idx' = 1
  /\ pc' = "compensating"

\* the list the compensation loop walks, and the step of its current iteration
CompensationList == Reversed(completed)
CompensatedStep == CompensationList[comp_idx]

\* a directive that names no built step fails the step the loop has come to
InjectedFailure_UnknownNameToo ==
  /\ pc = "executing"
  /\ idx <= Len(steps)
  /\ \/ fail_at_step = steps[idx]
     \/ fail_at_step # None /\ \A i \in 1..Len(steps) : steps[i] # fail_at_step
  /\ EnterFailed(logs, <<"Artificial failure at step", steps[idx]>>, <<>>)
  /\ UNCHANGED <<successes, service_call, service_result, reference>>
  /\ UNCHANGED <<users, items, promos, order_id, req, fail_at_step, amounts,
                 steps, idx, completed, result, before>>

\* the directive is looked at after the step has run
InjectedFailure_AfterRun ==
  /\ pc = "executing"
  /\ idx <= Len(steps)
  /\ fail_at_step = steps[idx]
  /\ LET out == StepRun(steps[idx], Store, order_id, req, amounts) IN
       /\ users' = out.store.users
       /\ items' = out.store.items
       /\ promos' = out.store.promos
       /\ IF out.ok
            THEN EnterFailed(out.store.logs,
                             <<"Artificial failure at step", steps[idx]>>, <<>>)
            ELSE EnterFailed(out.store.logs, out.error.strs, out.error.nums)
  /\ UNCHANGED <<successes, service_call, service_result, reference>>
  /\ UNCHANGED <<order_id, req, fail_at_step, amounts, steps, idx, completed,
                 result, before>>

\* one iteration of the for loop whose step is named by fail_at_step
InjectedFailure ==
  /\ pc = "executing"
  /\ idx <= Len(steps)
  /\ fail_at_step = steps[idx]
  /\ EnterFailed(logs, <<"Artificial failure at step", steps[idx]>>, <<>>)
  /\ UNCHANGED <<successes, service_call, service_result, reference>>
  /\ UNCHANGED <<users, items, promos, order_id, req, fail_at_step, amounts,
                 steps, idx, completed, result, before>>

\* one iteration of the for loop whose step runs and returns
StepCompletes ==
  /\ pc = "executing"
  /\ idx <= Len(steps)
  /\ fail_at_step # steps[idx]
  /\ LET out == StepRun(steps[idx], Store, order_id, req, amounts) IN
       /\ out.ok
       /\ users' = out.store.users
       /\ items' = out.store.items
       /\ promos' = out.store.promos
       /\ logs' = out.store.logs
  /\ completed' = Append(completed, steps[idx])
  /\ idx' = idx + 1
  /\ UNCHANGED <<successes, service_call, service_result, reference>>
  /\ UNCHANGED <<pc, order_id, req, fail_at_step, amounts, steps, comp_idx,
                 result, before>>

\* one iteration of the for loop whose step raises, the exception leaving
\* execute
StepRaises_Reraises ==
  /\ pc = "executing"
  /\ idx <= Len(steps)
  /\ fail_at_step # steps[idx]
  /\ LET out == StepRun(steps[idx], Store, order_id, req, amounts) IN
       /\ ~out.ok
       /\ users' = out.store.users
       /\ items' = out.store.items
       /\ promos' = out.store.promos
       /\ logs' = out.store.logs
  /\ result' = "raised"
  /\ pc' = "idle"
  /\ UNCHANGED <<successes, service_call, service_result, reference>>
  /\ UNCHANGED <<order_id, req, fail_at_step, amounts, steps, idx, completed,
                 comp_idx, before>>

\* a step that raises is passed over and the for loop goes on
StepRaises_Continues ==
  /\ pc = "executing"
  /\ idx <= Len(steps)
  /\ fail_at_step # steps[idx]
  /\ LET out == StepRun(steps[idx], Store, order_id, req, amounts) IN
       /\ ~out.ok
       /\ users' = out.store.users
       /\ items' = out.store.items
       /\ promos' = out.store.promos
       /\ logs' = out.store.logs
  /\ idx' = idx + 1
  /\ UNCHANGED <<successes, service_call, service_result, reference>>
  /\ UNCHANGED <<pc, order_id, req, fail_at_step, amounts, steps, completed,
                 comp_idx, result, before>>

\* one iteration of the for loop whose step raises
StepRaises ==
  /\ pc = "executing"
  /\ idx <= Len(steps)
  /\ fail_at_step # steps[idx]
  /\ LET out == StepRun(steps[idx], Store, order_id, req, amounts) IN
       /\ ~out.ok
       /\ users' = out.store.users
       /\ items' = out.store.items
       /\ promos' = out.store.promos
       /\ EnterFailed(out.store.logs, out.error.strs, out.error.nums)
  /\ UNCHANGED <<successes, service_call, service_result, reference>>
  /\ UNCHANGED <<order_id, req, fail_at_step, amounts, steps, idx, completed,
                 result, before>>

\* the for loop is over: SAGA OK, return True
SagaOK ==
  /\ pc = "executing"
  /\ idx > Len(steps)
  /\ logs' = Log(logs, Line(order_id, "SAGA OK", <<>>, <<>>))
  /\ result' = "True"
  /\ pc' = "idle"
  /\ successes' = Append(successes, <<req, amounts>>)
  /\ UNCHANGED <<service_call, service_result, reference>>
  /\ UNCHANGED <<users, items, promos, order_id, req, fail_at_step, amounts,
                 steps, idx, completed, comp_idx, before>>

\* one iteration of the compensation loop whose run_compensation returns
Compensate ==
  /\ pc = "compensating"
  /\ comp_idx <= Len(CompensationList)
  /\ LET out == StepRunCompensation(CompensatedStep, Store, order_id, req, amounts) IN
       /\ users' = out.store.users
       /\ items' = out.store.items
       /\ promos' = out.store.promos
       /\ logs' = out.store.logs
  /\ comp_idx' = comp_idx + 1
  /\ UNCHANGED <<successes, service_call, service_result, reference>>
  /\ UNCHANGED <<pc, order_id, req, fail_at_step, amounts, steps, idx,
                 completed, result, before>>

\* a compensate that raises ends the compensation loop
CompensateRaises_Aborts ==
  /\ pc = "compensating"
  /\ comp_idx <= Len(CompensationList)
  /\ logs' = Log(Log(logs, Line(order_id, "COMPENSATE", <<CompensatedStep>>, <<>>)),
                 Line(order_id, "COMPENSATION FAILED", <<CompensatedStep>>, <<>>))
  /\ comp_idx' = Len(CompensationList) + 1
  /\ UNCHANGED <<successes, service_call, service_result, reference>>
  /\ UNCHANGED <<users, items, promos, pc, order_id, req, fail_at_step, amounts,
                 steps, idx, completed, result, before>>

\* one iteration of the compensation loop whose compensate raises: the
\* COMPENSATE line is there, COMPENSATION FAILED is logged, the loop goes on
CompensateRaises ==
  /\ pc = "compensating"
  /\ comp_idx <= Len(CompensationList)
  /\ logs' = Log(Log(logs, Line(order_id, "COMPENSATE", <<CompensatedStep>>, <<>>)),
                 Line(order_id, "COMPENSATION FAILED", <<CompensatedStep>>, <<>>))
  /\ comp_idx' = comp_idx + 1
  /\ UNCHANGED <<successes, service_call, service_result, reference>>
  /\ UNCHANGED <<users, items, promos, pc, order_id, req, fail_at_step, amounts,
                 steps, idx, completed, result, before>>

\* the compensation loop is over, and execute returns True all the same
SagaEndFailed_ReturnsTrue ==
  /\ pc = "compensating"
  /\ comp_idx > Len(CompensationList)
  /\ logs' = Log(logs, Line(order_id, "SAGA END (failed)", <<>>, <<>>))
  /\ result' = "True"
  /\ pc' = "idle"
  /\ UNCHANGED <<successes, service_call, service_result, reference>>
  /\ UNCHANGED <<users, items, promos, order_id, req, fail_at_step, amounts,
                 steps, idx, completed, comp_idx, before>>

\* the compensation loop is over: SAGA END (failed), return False
SagaEndFailed ==
  /\ pc = "compensating"
  /\ comp_idx > Len(CompensationList)
  /\ logs' = Log(logs, Line(order_id, "SAGA END (failed)", <<>>, <<>>))
  /\ result' = "False"
  /\ pc' = "idle"
  /\ UNCHANGED <<successes, service_call, service_result, reference>>
  /\ UNCHANGED <<users, items, promos, order_id, req, fail_at_step, amounts,
                 steps, idx, completed, comp_idx, before>>

Next ==
  \/ ExecuteRejected
  \/ ExecuteStart
  \/ InjectedFailure
  \/ StepCompletes
  \/ StepRaises
  \/ SagaOK
  \/ Compensate
  \/ SagaEndFailed

Spec == Init /\ [][Next]_vars

\* ------------------------------------------ a compensate that may raise
\* Step.compensate is abstract and the compensation loop guards each call of
\* run_compensation with its own try/except.  No compensate of the four
\* steps of this repository raises; NextRaising runs the orchestrator with
\* steps whose compensate may also raise on entry, for the requests that pass
\* validation.
NextRaising ==
  \/ ExecuteStart
  \/ InjectedFailure
  \/ StepCompletes
  \/ StepRaises
  \/ SagaOK
  \/ Compensate
  \/ CompensateRaises
  \/ SagaEndFailed

SpecRaising == Init /\ [][NextRaising]_vars

\* ----------------------------------------- calls of execute in a row
\* SpecSeq runs up to MaxSeqOrders calls of execute one after another on one
\* store, over requests that can succeed, be rejected (qty 0), fail in a step
\* (user 2 cannot pay ITEM001; ITEM00X has one unit; ONETIME has one use) or
\* be failed by a directive.
SeqUserIds == {1, 2}
SeqSkus == {"ITEM001", "ITEM00X"}
SeqQtys == 0..MaxQty
SeqPromoCodes == {None, "ONETIME"}
SeqFailAts == {None, ChargeUserBalanceName, FinalizeOrderName}

SeqRejected ==
  \E u \in SeqUserIds, s \in SeqSkus, q \in SeqQtys, p \in SeqPromoCodes :
    Rejected(Request(u, s, q, p), MaxSeqOrders)

SeqStart ==
  \E u \in SeqUserIds, s \in SeqSkus, q \in SeqQtys, p \in SeqPromoCodes,
     f \in SeqFailAts :
    Begin(Request(u, s, q, p), f, MaxSeqOrders)

NextSeq ==
  \/ SeqRejected
  \/ SeqStart
  \/ InjectedFailure
  \/ StepCompletes
  \/ StepRaises
  \/ SagaOK
  \/ Compensate
  \/ SagaEndFailed

SpecSeq == Init /\ [][NextSeq]_vars

\* ------------------------------------------- direct calls of the services
\* SpecServices calls the methods of DiscountsService, InventoryService and
\* BillingService directly, up to MaxCalls calls in a row on one store, with
\* keys that are in the store and keys that are not.  logs holds the lines
\* the call appended; order_id is the order_id argument.
Amounts == {0, 120, 60000, 2000000}

\* the call name(s, n, m) came back with outcome out and return value value
ServiceCall(name, s, n, m, out, value) ==
  /\ pc = "idle"
  /\ order_id < MaxCalls
  /\ order_id' = order_id + 1
  /\ service_call' = <<name, s, n, m>>
  /\ service_result' = <<IF out.ok THEN "returned" ELSE "raised", value>>
  /\ before' = ledger
  /\ users' = out.store.users
  /\ items' = out.store.items
  /\ promos' = out.store.promos
  /\ logs' = out.store.logs
  /\ UNCHANGED <<pc, req, fail_at_step, amounts, steps, idx, completed,
                 comp_idx, result, successes, reference>>

\* the store a direct call works on
CallStore == StoreOf(users, items, promos, <<>>)

CallCalculateDiscount ==
  \E p \in PromoCodes, b \in Amounts :
    ServiceCall("calculate_discount", p, 0, b, Returned(CallStore),
                calculate_discount(promos, p, b))

CallReservePromoUse ==
  \E p \in PromoCodes :
    ServiceCall("reserve_promo_use", p, 0, 0,
                reserve_promo_use(CallStore, order_id + 1, p), 0)

CallReleasePromoUse ==
  \E p \in PromoCodes :
    ServiceCall("release_promo_use", p, 0, 0,
                release_promo_use(CallStore, order_id + 1, p), 0)

CallReserveInventory ==
  \E s \in Skus, q \in Qtys :
    ServiceCall("reserve_inventory", s, 0, q,
                reserve_inventory(CallStore, order_id + 1, s, q), 0)

CallReleaseInventory ==
  \E s \in Skus, q \in Qtys :
    ServiceCall("release_inventory", s, 0, q,
                release_inventory(CallStore, order_id + 1, s, q), 0)

CallChargeUserBalance ==
  \E u \in UserIds, b \in Amounts :
    ServiceCall("charge_user_balance", "", u, b,
                charge_user_balance(CallStore, order_id + 1, u, b), 0)

CallRefundUserBalance ==
  \E u \in UserIds, b \in Amounts :
    ServiceCall("refund_user_balance", "", u, b,
                refund_user_balance(CallStore, order_id + 1, u, b), 0)

NextServices ==
  \/ CallCalculateDiscount
  \/ CallReservePromoUse
  \/ CallReleasePromoUse
  \/ CallReserveInventory
  \/ CallReleaseInventory
  \/ CallChargeUserBalance
  \/ CallRefundUserBalance

SpecServices == Init /\ [][NextServices]_vars

\* ------------------------------- one request with and without a directive
\* SpecTwin calls execute for a request that passes validation with no
\* fail_at_step, keeps what the call returned, the ledger it left and the
\* lines it logged, builds the same store again (the seeding of the store
\* fixture and of run_order), and calls execute for the same request, the
\* same order id included, with any directive.

\* the first call: any request, no directive
ReferenceStart ==
  /\ reference = NoReference
  /\ \E u \in UserIds, s \in Skus, q \in Qtys, p \in PromoCodes :
       Begin(Request(u, s, q, p), None, 1)

\* the first call is over: its outcome is kept and a store with the same
\* seeds is built
Reseed ==
  /\ reference = NoReference
  /\ pc = "idle"
  /\ result \in {"True", "False"}
  /\ reference' = <<req, result, ledger, logs>>
  /\ users' = SeedUsers
  /\ items' = SeedItems
  /\ promos' = SeedPromos(promos["ONETIME"].discount_amount)
  /\ logs' = <<>>
  /\ order_id' = 0
  /\ req' = NoRequest
  /\ fail_at_step' = None
  /\ amounts' = NoAmounts
  /\ steps' = <<>>
  /\ idx' = 0
  /\ completed' = <<>>
  /\ comp_idx' = 0
  /\ result' = "none"
  /\ before' = <<users', items', promos'>>
  /\ successes' = <<>>
  /\ UNCHANGED <<pc, service_call, service_result>>

\* the second call: the request of the first, any directive
DirectedStart ==
  /\ reference # NoReference
  /\ \E f \in FailAts : Begin(reference[1], f, 1)

NextTwin ==
  \/ ReferenceStart
  \/ Reseed
  \/ DirectedStart
  \/ InjectedFailure
  \/ StepCompletes
  \/ StepRaises
  \/ SagaOK
  \/ Compensate
  \/ SagaEndFailed

SpecTwin == Init /\ [][NextTwin]_vars

TypeOK ==
  /\ pc \in {"idle", "executing", "compensating"}
  /\ result \in {"none", "True", "False", "raised"}
  /\ order_id \in Nat

\* ============================================================== properties
\* the call of execute has ended (returned or raised)
Ended == pc = "idle" /\ order_id > 0

\* the first string of every log line whose text is text, in log order
NamesOf(text) ==
  LET sel == SelectSeq(logs, LAMBDA l : l.text = text)
  IN  [i \in 1..Len(sel) |-> sel[i].strs[1]]

Range(seq) == {seq[i] : i \in 1..Len(seq)}

HasLine(text) == \E i \in 1..Len(logs) : logs[i].text = text

\* the request of the current call passed validation on the ledger it met
WasValid ==
  /\ req.qty > 0
  /\ req.user_id \in DOMAIN before[1]
  /\ req.sku \in DOMAIN before[2]

\* C1: when execute returns False, every user balance, every item's on_hand
\* and every promo's remaining_uses is what it was when the call began.
C1_FailedRestoresLedger ==
  (Ended /\ result = "False") =>
    /\ \A u \in DOMAIN users : users[u] = before[1][u]
    /\ \A s \in DOMAIN items : items[s].on_hand = before[2][s].on_hand
    /\ \A c \in DOMAIN promos : promos[c].remaining_uses = before[3][c].remaining_uses

\* C1 witness: a call returned False after the promo, inventory and charge
\* steps had completed with a discount applied and were compensated.
C1_Witness ==
  /\ Ended /\ result = "False"
  /\ completed = <<ReservePromoUseName, ReserveInventoryName, ChargeUserBalanceName>>
  /\ amounts.discount_amount # 0
  /\ amounts.final_amount > 0

\* C2: when execute returns True, the user's balance is its value before the
\* call minus final_amount, the item's on_hand its value before minus qty,
\* and a supplied promo's remaining_uses its value before minus 1.
C2_SuccessEffects ==
  (Ended /\ result = "True") =>
    /\ users[req.user_id] = before[1][req.user_id] - amounts.final_amount
    /\ items[req.sku].on_hand = before[2][req.sku].on_hand - req.qty
    /\ (req.promo_code \notin {None, ""}) =>
         promos[req.promo_code].remaining_uses =
           before[3][req.promo_code].remaining_uses - 1

\* C2 witness: a call with a promo code returned True at a discounted price.
C2_Witness ==
  /\ Ended /\ result = "True"
  /\ req.promo_code = "ONETIME"
  /\ req.qty = 2
  /\ amounts.discount_amount > 0
  /\ amounts.final_amount > 0

\* C3: compensations run in exactly the reverse of the order in which the
\* steps completed, each compensation ending before the next one starts: the
\* COMPENSATE lines name, in order, the latest completed steps first, and
\* each COMPENSATE line is closed by its COMPENSATE OK line before the next
\* COMPENSATE line.
C3_ReverseOrder ==
  LET done == NamesOf("STEP OK")
      begun == NamesOf("COMPENSATE")
      marks == SelectSeq(logs, LAMBDA l : l.text \in {"COMPENSATE", "COMPENSATE OK"})
  IN  /\ Len(begun) <= Len(done)
      /\ \A i \in 1..Len(begun) : begun[i] = done[Len(done) + 1 - i]
      /\ Len(marks) = 2 * Len(begun)
      /\ \A i \in 1..Len(begun) :
           /\ marks[2 * i - 1].text = "COMPENSATE"
           /\ marks[2 * i].text = "COMPENSATE OK"
           /\ marks[2 * i].strs = marks[2 * i - 1].strs

\* C3 witness: a failure at FinalizeOrder compensated ChargeUserBalance, then
\* ReserveInventory, then ReservePromoUse.
C3_Witness ==
  /\ Ended /\ result = "False"
  /\ fail_at_step = FinalizeOrderName
  /\ NamesOf("COMPENSATE") =
       <<ChargeUserBalanceName, ReserveInventoryName, ReservePromoUseName>>

\* C4: in a failed saga the compensated steps are exactly the completed
\* steps, each compensated once; the failing step and the steps after it are
\* never compensated.
C4_CompensatedAreCompleted ==
  LET done == NamesOf("STEP OK")
      begun == NamesOf("COMPENSATE")
  IN  /\ Range(begun) \subseteq Range(done)
      /\ \A i, j \in 1..Len(begun) : begun[i] = begun[j] => i = j
      /\ pc = "compensating" =>
           \A k \in idx..Len(steps) : steps[k] \notin Range(begun)
      /\ (Ended /\ result = "False") =>
           /\ Range(begun) = Range(done)
           /\ Range(done) = {steps[k] : k \in 1..(idx - 1)}
           /\ \A k \in idx..Len(steps) : steps[k] \notin Range(begun)

\* C4 witness: the charge step failed by itself after two steps completed,
\* and the two were compensated.
C4_Witness ==
  /\ Ended /\ result = "False"
  /\ fail_at_step = None
  /\ steps[idx] = ChargeUserBalanceName
  /\ Len(NamesOf("COMPENSATE")) = 2

\* C5: for a request that passes validation, execute returns True if every
\* built step executed without failure, and False otherwise.
C5_TrueIffAllStepsRan ==
  (Ended /\ WasValid) =>
    /\ result \in {"True", "False"}
    /\ result = "True" <=>
         /\ NamesOf("STEP OK") = steps
         /\ ~HasLine("SAGA FAILED")
         /\ fail_at_step \notin Range(steps)

\* C5 witness: both outcomes are a matter of the run: a call returned False
\* because its last step failed after all the others had executed.
C5_Witness ==
  /\ Ended /\ result = "False"
  /\ idx = Len(steps)
  /\ Len(completed) = Len(steps) - 1

\* the last line of the log has this text
LastLineIs(text) == Len(logs) > 0 /\ logs[Len(logs)].text = text

\* C6: an in-saga failure is never raised to the caller of execute: once a
\* step has failed (a STEP line without its STEP OK, or an injected fault)
\* SAGA FAILED is logged, and the call ends by returning False after SAGA
\* END (failed), never by raising.
C6_InSagaFailureReturnsFalse ==
  /\ Len(NamesOf("STEP")) > Len(NamesOf("STEP OK")) => HasLine("SAGA FAILED")
  /\ HasLine("SAGA FAILED") => result \in {"none", "False"}
  /\ (Ended /\ HasLine("SAGA FAILED")) =>
       (result = "False" /\ LastLineIs("SAGA END (failed)"))
  /\ result = "raised" => ~HasLine("STEP")

\* C6 witness: a charge failed on an insufficient balance and the call
\* returned False.
C6_Witness ==
  /\ Ended /\ result = "False"
  /\ \E i \in 1..Len(logs) :
       logs[i].text = "SAGA FAILED" /\ logs[i].strs[1] = "Insufficient balance"

\* C7: a request with qty <= 0, an unknown user id or an unknown sku ends
\* execute by a raise: no step and no compensation runs, the ledger is
\* unchanged, and the SAGA START line is the only line the call logs.
C7_ValidationRaises ==
  (Ended /\ ~WasValid) =>
    /\ result = "raised"
    /\ users = before[1] /\ items = before[2] /\ promos = before[3]
    /\ Len(logs) = 1
    /\ logs[1].text = "SAGA START"
    /\ steps = <<>>
    /\ completed = <<>>

\* C7 witness: a call with a known user and qty > 0 raised on an unknown sku.
C7_Witness ==
  /\ Ended /\ result = "raised"
  /\ req.qty > 0
  /\ req.user_id \in DOMAIN users
  /\ req.sku \notin DOMAIN items

\* the current call passed validation with a promo code that was unknown or
\* had no uses left when the call began
BadPromoCall ==
  /\ order_id > 0
  /\ WasValid
  /\ req.promo_code \notin {None, ""}
  /\ \/ req.promo_code \notin DOMAIN before[3]
     \/ before[3][req.promo_code].remaining_uses <= 0

\* C8: when the supplied promo code is unknown or has no uses left, a
\* validated call fails at ReservePromoUse: ReserveInventory and
\* ChargeUserBalance are never started, on_hand and balance never change
\* during the run, no COMPENSATE line is logged, and execute returns False.
C8_BadPromoFailsFirst ==
  BadPromoCall =>
    /\ ReserveInventoryName \notin Range(NamesOf("STEP"))
    /\ ChargeUserBalanceName \notin Range(NamesOf("STEP"))
    /\ users = before[1]
    /\ items = before[2]
    /\ ~HasLine("COMPENSATE")
    /\ completed = <<>>
    /\ idx = 1 /\ steps[idx] = ReservePromoUseName
    /\ Ended => result = "False"

\* C8 witness: a call with the depleted code EXPIRED failed inside
\* reserve_promo_use and returned False.
C8_Witness ==
  /\ Ended /\ BadPromoCall
  /\ req.promo_code = "EXPIRED"
  /\ \E i \in 1..Len(logs) :
       logs[i].text = "SAGA FAILED" /\ logs[i].strs[1] = "Promo has no remaining uses"

\* C9: compensation is best-effort: a compensate that raises is logged as
\* COMPENSATION FAILED for its step, the remaining completed steps are still
\* compensated in reverse order, and execute returns False without raising.
C9_BestEffortCompensation ==
  LET done == NamesOf("STEP OK")
      begun == NamesOf("COMPENSATE")
      marks == SelectSeq(logs, LAMBDA l :
                 l.text \in {"COMPENSATE", "COMPENSATE OK", "COMPENSATION FAILED"})
  IN  /\ Len(begun) <= Len(done)
      /\ \A i \in 1..Len(begun) : begun[i] = done[Len(done) + 1 - i]
      /\ Len(marks) = 2 * Len(begun)
      /\ \A i \in 1..Len(begun) :
           /\ marks[2 * i - 1].text = "COMPENSATE"
           /\ marks[2 * i].text \in {"COMPENSATE OK", "COMPENSATION FAILED"}
           /\ marks[2 * i].strs = marks[2 * i - 1].strs
      /\ HasLine("COMPENSATION FAILED") => result \in {"none", "False"}
      /\ (Ended /\ HasLine("SAGA FAILED")) =>
           /\ result = "False"
           /\ Len(begun) = Len(done)
           /\ LastLineIs("SAGA END (failed)")

\* C9 witness: the compensation of ChargeUserBalance raised, ReserveInventory
\* and ReservePromoUse were compensated after it, and the call returned False.
C9_Witness ==
  /\ Ended /\ result = "False"
  /\ NamesOf("COMPENSATION FAILED") = <<ChargeUserBalanceName>>
  /\ NamesOf("COMPENSATE OK") = <<ReserveInventoryName, ReservePromoUseName>>

\* C10: the built sequence is [ReservePromoUse,] ReserveInventory,
\* ChargeUserBalance, FinalizeOrder, with ReservePromoUse exactly when a
\* promo code was supplied, known or not, with uses left or not; it has at
\* least three steps, the steps started are its first steps in order, and a
\* request without a promo code starts no ReservePromoUse.
C10_StepSequence ==
  (order_id > 0 /\ result # "raised") =>
    LET supplied == req.promo_code \notin {None, ""}
        begun == NamesOf("STEP")
    IN  /\ steps = (IF supplied THEN <<"ReservePromoUse">> ELSE <<>>)
                     \o <<"ReserveInventory", "ChargeUserBalance", "FinalizeOrder">>
        /\ Len(steps) >= 3
        /\ Len(begun) <= Len(steps)
        /\ \A i \in 1..Len(begun) : begun[i] = steps[i]
        /\ ~supplied => "ReservePromoUse" \notin Range(begun)

\* C10 witness: a call with a promo code the store does not know built the
\* four steps and started ReservePromoUse.
C10_Witness ==
  /\ Ended
  /\ req.promo_code = "NOPROMO"
  /\ Len(steps) = 4
  /\ NamesOf("STEP") = <<ReservePromoUseName>>

\* the latest direct call of a service was a call of name
Called(name) == service_call[1] = name

\* C11: calculate_discount(promo_code, base_amount) returns zero when the
\* code is absent (None or empty), is not in the store, or has
\* remaining_uses <= 0; otherwise it returns the smaller of that promo's
\* discount_amount and base_amount.  It returns (never raises) and leaves
\* users, items and promos as they were.
C11_CalculateDiscount ==
  Called("calculate_discount") =>
    LET code == service_call[2]
        base == service_call[4]
        ps == before[3]
        zero == \/ code = None
                \/ code = ""
                \/ code \notin DOMAIN ps
                \/ ps[code].remaining_uses <= 0
    IN  /\ service_result[1] = "returned"
        /\ zero => service_result[2] = 0
        /\ ~zero => /\ service_result[2] \in {ps[code].discount_amount, base}
                     /\ service_result[2] <= ps[code].discount_amount
                     /\ service_result[2] <= base
        /\ ledger = before

\* C11 witness: calculate_discount was called for ONETIME, which has a use
\* left and a discount above the base amount, and returned the base amount.
C11_Witness ==
  /\ Called("calculate_discount")
  /\ service_call[2] = "ONETIME"
  /\ before[3]["ONETIME"].remaining_uses > 0
  /\ before[3]["ONETIME"].discount_amount > service_call[4]
  /\ service_call[4] > 0
  /\ service_result = <<"returned", service_call[4]>>

\* C12: for every promo of the store and every base amount, the discount
\* that calculate_discount returns and that is applied to an order is never
\* negative and never above the base amount:
\* 0 <= discount_amount <= base_amount.
C12_DiscountWithinBase ==
  (order_id > 0 /\ result # "raised") =>
    /\ 0 <= amounts.discount_amount
    /\ amounts.discount_amount <= amounts.base_amount

\* C13: in every state reached by calls of execute made one after another
\* on one store, the states between two steps and between two compensations
\* included, every item has on_hand >= 0 and every promo has
\* remaining_uses >= 0 (the seeds are non-negative).
C13_StockAndUsesNonNegative ==
  /\ \A s \in DOMAIN items : items[s].on_hand >= 0
  /\ \A p \in DOMAIN promos : promos[p].remaining_uses >= 0

\* C13 witness: an earlier call took the last unit of ITEM00X and the only
\* use of ONETIME; the second call asked for ITEM00X again, its
\* ReserveInventory failed, and the compensation loop is about to start.
C13_Witness ==
  /\ order_id = 2
  /\ pc = "compensating"
  /\ items["ITEM00X"].on_hand = 0
  /\ promos["ONETIME"].remaining_uses = 0
  /\ \E i \in 1..Len(logs) :
       logs[i].text = "SAGA FAILED" /\ logs[i].strs[1] = "Insufficient inventory"

\* C14: forward execution runs the steps strictly in sequence order and
\* stops at the first failure.  While executing, the completed steps are
\* exactly the steps before the current one; the only moves are from step i
\* to step i + 1 when step i has run and completed, to compensation when
\* step i failed (no later step is started), and to the return of True once
\* the last step has completed; during compensation no forward step is
\* started again and no step is completed.
C14_ForwardInOrder ==
  [][ /\ pc = "executing" => completed = SubSeq(steps, 1, idx - 1)
      /\ (pc = "executing" /\ pc' = "executing") =>
           /\ idx <= Len(steps)
           /\ idx' = idx + 1
           /\ completed' = Append(completed, steps[idx])
           /\ NamesOf("STEP")' = Append(NamesOf("STEP"), steps[idx])
           /\ NamesOf("STEP OK")' = Append(NamesOf("STEP OK"), steps[idx])
      /\ (pc = "executing" /\ pc' = "compensating") =>
           /\ idx <= Len(steps)
           /\ idx' = idx
           /\ completed' = completed
           /\ NamesOf("STEP")' \in {NamesOf("STEP"), Append(NamesOf("STEP"), steps[idx])}
           /\ NamesOf("STEP OK")' = NamesOf("STEP OK")
      /\ (pc = "executing" /\ pc' = "idle") =>
           /\ idx = Len(steps) + 1
           /\ completed = steps
           /\ result' = "True"
      /\ pc = "compensating" =>
           /\ pc' \in {"compensating", "idle"}
           /\ idx' = idx
           /\ completed' = completed
           /\ NamesOf("STEP")' = NamesOf("STEP")
           /\ NamesOf("STEP OK")' = NamesOf("STEP OK")
           /\ pc' = "idle" => result' = "False"
      /\ (pc = "idle" /\ pc' # "idle") =>
           /\ pc' = "executing"
           /\ idx' = 1
           /\ completed' = <<>>
           /\ NamesOf("STEP")' = <<>>
    ]_vars

\* C14 witness: of four built steps the second, ReserveInventory, failed
\* after ReservePromoUse had completed; the call ended with
\* ChargeUserBalance and FinalizeOrder never started.
C14_Witness ==
  /\ Ended /\ result = "False"
  /\ Len(steps) = 4
  /\ idx = 2
  /\ NamesOf("STEP") = <<ReservePromoUseName, ReserveInventoryName>>
  /\ NamesOf("STEP OK") = <<ReservePromoUseName>>

\* the current call was failed by its fail_at_step directive
Injected ==
  \E i \in 1..Len(logs) :
    logs[i].text = "SAGA FAILED" /\ logs[i].strs[1] = "Artificial failure at step"

\* C15: when fail_at_step names the step the for loop has come to, the step
\* fails without its service being called: the move to compensation changes
\* no user, item or promo, logs no STEP line for it and does not add it to
\* the completed steps; when the call ends the step was never started and
\* never compensated, and exactly the steps completed before it were
\* compensated.
C15_InjectedFailure ==
  [][ /\ (pc = "executing" /\ idx <= Len(steps) /\ fail_at_step = steps[idx]) =>
           /\ pc' = "compensating"
           /\ ledger' = ledger
           /\ completed' = completed
           /\ NamesOf("STEP")' = NamesOf("STEP")
           /\ Injected'
      /\ (Injected /\ pc = "compensating" /\ pc' = "idle") =>
           /\ result' = "False"
           /\ fail_at_step = steps[idx]
           /\ fail_at_step \notin Range(completed)
           /\ fail_at_step \notin Range(NamesOf("STEP")')
           /\ fail_at_step \notin Range(NamesOf("COMPENSATE")')
           /\ completed = SubSeq(steps, 1, idx - 1)
           /\ Len(NamesOf("COMPENSATE OK")') = Len(completed)
           /\ Range(NamesOf("COMPENSATE OK")') = Range(completed)
    ]_vars

\* C15 witness: a call with a promo code and the directive ChargeUserBalance
\* ended: the charge never ran and the two steps before it were compensated.
C15_Witness ==
  /\ Ended /\ Injected
  /\ fail_at_step = ChargeUserBalanceName
  /\ completed = <<ReservePromoUseName, ReserveInventoryName>>
  /\ NamesOf("COMPENSATE OK") = <<ReserveInventoryName, ReservePromoUseName>>
  /\ users = before[1]

\* the direct call of a service raised and left the tables and the log alone
CallFailedClean ==
  /\ service_result[1] = "raised"
  /\ ledger = before
  /\ logs = <<>>

\* the direct call of a service returned having appended one log line
CallLoggedOnce == service_result[1] = "returned" /\ Len(logs) = 1

\* C16: each forward mutation either fails and leaves every user, item and
\* promo and the log unchanged, or succeeds, takes exactly its decrement
\* (one use, qty units, amount) from the one entity addressed and appends
\* exactly one log line.  reserve_promo_use fails when the code is unknown
\* or remaining_uses <= 0, reserve_inventory when the sku is unknown or
\* on_hand < qty, charge_user_balance when the user is unknown or
\* balance < amount, and they succeed otherwise.
C16_ForwardMutations ==
  LET code == service_call[2]
      sku == service_call[2]
      user == service_call[3]
      n == service_call[4]
      us == before[1]
      its == before[2]
      ps == before[3]
  IN  /\ Called("reserve_promo_use") =>
           IF code \notin DOMAIN ps \/ ps[code].remaining_uses <= 0
             THEN CallFailedClean
             ELSE /\ CallLoggedOnce
                  /\ DOMAIN promos = DOMAIN ps
                  /\ promos[code].remaining_uses = ps[code].remaining_uses - 1
                  /\ promos[code].discount_amount = ps[code].discount_amount
                  /\ \A c \in DOMAIN ps \ {code} : promos[c] = ps[c]
                  /\ users = us /\ items = its
      /\ Called("reserve_inventory") =>
           IF sku \notin DOMAIN its \/ its[sku].on_hand < n
             THEN CallFailedClean
             ELSE /\ CallLoggedOnce
                  /\ DOMAIN items = DOMAIN its
                  /\ items[sku].on_hand = its[sku].on_hand - n
                  /\ items[sku].price = its[sku].price
                  /\ \A k \in DOMAIN its \ {sku} : items[k] = its[k]
                  /\ users = us /\ promos = ps
      /\ Called("charge_user_balance") =>
           IF user \notin DOMAIN us \/ us[user] < n
             THEN CallFailedClean
             ELSE /\ CallLoggedOnce
                  /\ DOMAIN users = DOMAIN us
                  /\ users[user] = us[user] - n
                  /\ \A k \in DOMAIN us \ {user} : users[k] = us[k]
                  /\ items = its /\ promos = ps

\* C16 witness: after a charge that succeeded, a charge of more than the
\* balance left was refused.
C16_Witness ==
  /\ Called("charge_user_balance")
  /\ service_result[1] = "raised"
  /\ service_call[3] \in DOMAIN users
  /\ users[service_call[3]] < SeedUsers[service_call[3]]
  /\ users[service_call[3]] > 0
  /\ users[service_call[3]] < service_call[4]

\* the text of the line the execute of a step logs through its service
ExecuteMessage(name) ==
  IF name = ReservePromoUseName THEN "promo reserved"
  ELSE IF name = ReserveInventoryName THEN "inventory reserved"
  ELSE IF name = ChargeUserBalanceName THEN "charged"
  ELSE "order finalized"

\* line i of the log has this text and this step name
IsLine(i, text, name) ==
  /\ i \in 1..Len(logs)
  /\ logs[i].text = text
  /\ logs[i].strs = <<name>>

\* C17: log bracketing.  A step that completes contributes, in this order
\* and next to each other, STEP <name>, the message of its resource and
\* STEP <name> OK; a step whose service call fails contributes STEP <name>
\* and no STEP <name> OK; every compensation that completes contributes
\* COMPENSATE <name> and, later, COMPENSATE <name> OK; no STEP <name> OK and
\* no COMPENSATE <name> OK comes without its opening line before it.
C17_LogBracketing ==
  /\ NamesOf("STEP OK") = completed
  /\ \A i \in 1..Len(logs) :
       /\ logs[i].text = "STEP" =>
            LET name == logs[i].strs[1] IN
            IF name \in Range(completed)
              THEN /\ i + 2 <= Len(logs)
                   /\ logs[i + 1].text = ExecuteMessage(name)
                   /\ IsLine(i + 2, "STEP OK", name)
              ELSE /\ i + 1 <= Len(logs)
                   /\ logs[i + 1].text = "SAGA FAILED"
                   /\ \A j \in 1..Len(logs) : ~IsLine(j, "STEP OK", name)
       /\ logs[i].text = "STEP OK" =>
            /\ i >= 3
            /\ IsLine(i - 2, "STEP", logs[i].strs[1])
       /\ logs[i].text = "COMPENSATE" =>
            \E j \in (i + 1)..Len(logs) : IsLine(j, "COMPENSATE OK", logs[i].strs[1])
       /\ logs[i].text = "COMPENSATE OK" =>
            \E j \in 1..(i - 1) :
              /\ IsLine(j, "COMPENSATE", logs[i].strs[1])
              /\ \A k \in (j + 1)..(i - 1) :
                   logs[k].text \notin {"COMPENSATE", "COMPENSATE OK"}

\* C17 witness: ReserveInventory completed, the charge was refused by the
\* billing service, and ReserveInventory was compensated.
C17_Witness ==
  /\ Ended
  /\ NamesOf("STEP") = <<ReserveInventoryName, ChargeUserBalanceName>>
  /\ NamesOf("STEP OK") = <<ReserveInventoryName>>
  /\ NamesOf("COMPENSATE") = <<ReserveInventoryName>>
  /\ NamesOf("COMPENSATE OK") = <<ReserveInventoryName>>
  /\ ~Injected

\* the direct call of a service returned having changed and logged nothing
CallWasNoOp ==
  /\ service_result[1] = "returned"
  /\ ledger = before
  /\ logs = <<>>

\* C18: the inverse mutations never fail.  For a key of the store
\* release_promo_use adds one use, release_inventory adds qty units and
\* refund_user_balance adds amount to the entity addressed, nothing else
\* changes and one log line is appended; for a key the store does not have
\* they change no entity, append no log line and raise nothing.
C18_InverseMutations ==
  LET code == service_call[2]
      sku == service_call[2]
      user == service_call[3]
      n == service_call[4]
      us == before[1]
      its == before[2]
      ps == before[3]
  IN  /\ Called("release_promo_use") =>
           IF code \notin DOMAIN ps
             THEN CallWasNoOp
             ELSE /\ CallLoggedOnce
                  /\ DOMAIN promos = DOMAIN ps
                  /\ promos[code].remaining_uses = ps[code].remaining_uses + 1
                  /\ promos[code].discount_amount = ps[code].discount_amount
                  /\ \A c \in DOMAIN ps \ {code} : promos[c] = ps[c]
                  /\ users = us /\ items = its
      /\ Called("release_inventory") =>
           IF sku \notin DOMAIN its
             THEN CallWasNoOp
             ELSE /\ CallLoggedOnce
                  /\ DOMAIN items = DOMAIN its
                  /\ items[sku].on_hand = its[sku].on_hand + n
                  /\ items[sku].price = its[sku].price
                  /\ \A k \in DOMAIN its \ {sku} : items[k] = its[k]
                  /\ users = us /\ promos = ps
      /\ Called("refund_user_balance") =>
           IF user \notin DOMAIN us
             THEN CallWasNoOp
             ELSE /\ CallLoggedOnce
                  /\ DOMAIN users = DOMAIN us
                  /\ users[user] = us[user] + n
                  /\ \A k \in DOMAIN us \ {user} : users[k] = us[k]
                  /\ items = its /\ promos = ps

\* C18 witness: release_inventory was called for a sku the store does not
\* have, with a positive quantity, and returned.
C18_Witness ==
  /\ Called("release_inventory")
  /\ service_call[2] \notin DOMAIN items
  /\ service_call[4] > 0
  /\ service_result[1] = "returned"
  /\ logs = <<>>

\* price * qty of the current call, on the store the call met
PriceTimesQty == before[2][req.sku].price * req.qty

\* the current call has charged the user and not refunded him
ChargeStands ==
  /\ ChargeUserBalanceName \in Range(completed)
  /\ ChargeUserBalanceName \notin Range(NamesOf("COMPENSATE OK"))

\* final = base - discount, the three amounts are whole cents, and what was
\* charged and what was refunded is final_amount, in the log lines of the
\* billing service and in the balance
AmountsConsistent ==
  /\ amounts.final_amount = amounts.base_amount - amounts.discount_amount
  /\ amounts.base_amount % Cent = 0
  /\ amounts.discount_amount % Cent = 0
  /\ amounts.final_amount % Cent = 0
  /\ \A i \in 1..Len(logs) :
       logs[i].text \in {"charged", "refunded"} =>
         /\ logs[i].nums[1] = req.user_id
         /\ logs[i].nums[2] = amounts.final_amount
  /\ users[req.user_id] =
       before[1][req.user_id] - (IF ChargeStands THEN amounts.final_amount ELSE 0)

\* the call in progress or just ended passed validation
ValidatedCall == order_id > 0 /\ result # "raised" /\ WasValid

\* C19 as stated: for every validated request final_amount = base_amount -
\* discount_amount exactly, with base_amount = price * qty, all three
\* multiples of 0.01, and the amount charged by ChargeUserBalance and the
\* amount refunded by its compensation both exactly final_amount.
C19_AsStated ==
  ValidatedCall =>
    /\ AmountsConsistent
    /\ amounts.base_amount = PriceTimesQty

\* the absolute value
Abs(x) == IF x < 0 THEN -x ELSE x

\* C19: for every validated request final_amount = base_amount -
\* discount_amount exactly, with base_amount = price * qty rounded to the
\* nearest multiple of 0.01, a tie going to the even cent, all three
\* multiples of 0.01, and the amount charged by ChargeUserBalance and the
\* amount refunded by its compensation both exactly final_amount.
C19_AmountsExact ==
  ValidatedCall =>
    /\ AmountsConsistent
    /\ 2 * Abs(amounts.base_amount - PriceTimesQty) <= Cent
    /\ 2 * Abs(amounts.base_amount - PriceTimesQty) = Cent =>
         (amounts.base_amount \div Cent) % 2 = 0

\* C19 witness: a call for ITEM00X, whose price times qty is not a whole
\* number of cents, charged a positive final amount and refunded it.
C19_Witness ==
  /\ Ended /\ result = "False"
  /\ PriceTimesQty % Cent # 0
  /\ amounts.base_amount # PriceTimesQty
  /\ amounts.final_amount > 0
  /\ \E i \in 1..Len(logs) : logs[i].text = "charged"
  /\ \E i \in 1..Len(logs) : logs[i].text = "refunded"

\* the sum of a sequence of numbers
RECURSIVE SumSeq(_)
SumSeq(ns) == IF ns = <<>> THEN 0 ELSE Head(ns) + SumSeq(Tail(ns))

\* over the calls that returned True: the units of sku s ordered, the final
\* amounts of user u, the number of calls that supplied promo code c
UnitsSold(s) ==
  SumSeq([i \in 1..Len(successes) |->
            IF successes[i][1].sku = s THEN successes[i][1].qty ELSE 0])
AmountPaid(u) ==
  SumSeq([i \in 1..Len(successes) |->
            IF successes[i][1].user_id = u THEN successes[i][2].final_amount ELSE 0])
TimesSupplied(c) ==
  SumSeq([i \in 1..Len(successes) |->
            IF successes[i][1].promo_code = c THEN 1 ELSE 0])

\* the promos the store was seeded with (discount_amount never changes)
SeededPromos == SeedPromos(promos["ONETIME"].discount_amount)

\* C20: after any sequence of calls of execute on one store (calls that
\* succeed, fail in a step, are failed by a directive or are rejected by
\* validation, in any mix), each item's on_hand is its seeded value minus
\* the sum of qty over the successful orders for that sku, each user's
\* balance is its seeded value minus the sum of final_amount over that
\* user's successful orders, and each promo's remaining_uses is its seeded
\* value minus the number of successful orders that supplied it.
C20_LedgerIsSeedMinusSuccesses ==
  pc = "idle" =>
    /\ \A s \in DOMAIN items :
         items[s].on_hand = SeedItems[s].on_hand - UnitsSold(s)
    /\ \A u \in DOMAIN users : users[u] = SeedUsers[u] - AmountPaid(u)
    /\ \A c \in DOMAIN promos :
         promos[c].remaining_uses = SeededPromos[c].remaining_uses - TimesSupplied(c)

\* C20 witness: three calls were made; two succeeded, for the same user, one
\* of them with the promo code; the last one failed after two steps had
\* completed and were compensated.
C20_Witness ==
  /\ Ended /\ order_id = 3
  /\ Len(successes) = 2
  /\ successes[1][1].user_id = successes[2][1].user_id
  /\ TimesSupplied("ONETIME") = 1
  /\ result = "False"
  /\ Len(NamesOf("COMPENSATE OK")) = 2

\* no promo of the store has a negative discount_amount
DiscountsNonNegative == \A c \in DOMAIN promos : promos[c].discount_amount >= 0

DirectiveNamedNoStep ==
  /\ reference # NoReference
  /\ Ended
  /\ req = reference[1]
  /\ fail_at_step # None
  /\ fail_at_step \notin Range(steps)

\* C22: a fail_at_step that names no step of the built sequence (a name of
\* no step, or ReservePromoUse for a request without promo code) has no
\* effect: execute returns the same value, leaves the same users, items and
\* promos and logs the same lines as for the same request on the same store
\* with no directive.
C22_IdleDirective ==
  DirectiveNamedNoStep =>
    /\ result = reference[2]
    /\ ledger = reference[3]
    /\ logs = reference[4]

\* C22 witness: a request whose promo code is the empty string, for which no
\* ReservePromoUse is built, was run with the directive ReservePromoUse and
\* returned True, as it had with no directive.
C22_Witness ==
  /\ DirectiveNamedNoStep
  /\ fail_at_step = ReservePromoUseName
  /\ req.promo_code = ""
  /\ result = "True"
  /\ reference[2] = "True"
  /\ Len(logs) > 2

====
